---------------------------- MODULE Spec2Model ----------------------------
(***************************************************************************)
(* dotscan (src/src/main.rs): for every entry of the current directory,   *)
(* report whether it is tracked by the bare repository <home>/dotfiles.   *)
(*                                                                         *)
(* Text is modelled as a sequence of one-character strings, so that       *)
(* split("/"), split("\n"), ends_with("/") and format!("{}/", ..) are     *)
(* computed as the code computes them.  The tracking count map            *)
(* (HashMap<String, u32>) is a function from keys to counts.  The u32     *)
(* counter would need 2^32 paths to overflow, far beyond the bounds here. *)
(***************************************************************************)
EXTENDS Integers, Sequences, FiniteSets, TLC

VARIABLES
    pc,          \* position of the run in main / the two loops
    result,      \* "running", "ok", or the outermost error context of main
    ls_status,   \* what Command::new("ls").output() produced
    git_status,  \* what Command::new("git").output() produced
    file_names,  \* current_dir_file_names (iterator contents)
    tracked,     \* tracked_file_names (iterator contents)
    h,           \* the HashMap built by count_tracked_files
    i,           \* number of tracked paths consumed by count_tracked_files
    j,           \* number of entries consumed by report_tracking_status
    out          \* lines written to standard output by println!

vars == <<pc, result, ls_status, git_status, file_names, tracked, h, i, j, out>>

----------------------------------------------------------------------------
(* Bounds and input pools                                                  *)

MaxEntries == 2
MaxTracked == 3
MaxCount == 2

\* Entry names as `ls -p` prints them.
EntryPool ==
    { <<"a">>, <<"b">>, <<"a", "/">>, <<"b", "/">> }

\* Paths as `git ls-tree --name-only -r HEAD` prints them.
TrackedPool ==
    { <<"a">>, <<"b">>, <<"a", "/", "a">>, <<"a", "/", "b">>,
      <<"b", "/", "a", "/", "b">> }

\* Arguments for count_tracked_files called on its own: also the empty path.
AggPool == TrackedPool \cup { <<>> }

\* Keys for a count map handed to report_tracking_status on its own.
KeyPool == EntryPool

RECURSIVE SeqsUpTo(_, _)
SeqsUpTo(S, n) ==
    IF n = 0 THEN { <<>> }
    ELSE LET shorter == SeqsUpTo(S, n - 1)
         IN  shorter \cup { Append(s, x) : s \in shorter, x \in S }

----------------------------------------------------------------------------
(* Text helpers                                                            *)

\* Index of the first occurrence of character c in s, 0 when absent.
FirstIndex(s, c) ==
    IF \E k \in 1..Len(s) : s[k] = c
    THEN CHOOSE k \in 1..Len(s) : s[k] = c /\ \A m \in 1..(k - 1) : s[m] # c
    ELSE 0

\* A split that yields nothing for the empty string (as split_terminator does).
RECURSIVE split_terminator(_, _)
split_terminator(s, c) ==
    LET k == FirstIndex(s, c)
    IN  IF s = <<>> THEN <<>>
        ELSE IF k = 0 THEN << s >>
        ELSE << SubSeq(s, 1, k - 1) >>
                 \o split_terminator(SubSeq(s, k + 1, Len(s)), c)

\* str::split(c): the pieces between occurrences of c; empty pieces are kept
\* and the empty string yields one empty piece.
RECURSIVE split(_, _)
split(s, c) ==
    LET k == FirstIndex(s, c)
    IN  IF k = 0 THEN << s >>
        ELSE << SubSeq(s, 1, k - 1) >> \o split(SubSeq(s, k + 1, Len(s)), c)

\* str::ends_with("/")
ends_with_slash(s) == Len(s) > 0 /\ s[Len(s)] = "/"

\* The standard output of a listing tool: every line terminated by "\n".
RECURSIVE Unlines(_)
Unlines(lines) ==
    IF lines = <<>> THEN <<>>
    ELSE Head(lines) \o << "\n" >> \o Unlines(Tail(lines))

\* stdout.split("\n").filter_map(|s| if s.len() > 0 {Some(..)} else {None})
NonEmptyLines(stdout) ==
    SelectSeq(split(stdout, "\n"), LAMBDA s : Len(s) > 0)

\* u32 Display: decimal digits.
DigitChars == << "0", "1", "2", "3", "4", "5", "6", "7", "8", "9" >>

RECURSIVE Decimal(_)
Decimal(n) ==
    IF n < 10 THEN << DigitChars[n + 1] >>
    ELSE Decimal(n \div 10) \o << DigitChars[(n % 10) + 1] >>

----------------------------------------------------------------------------
(* count_tracked_files                                                     *)

EmptyMap == [k \in {} |-> 0]

\* *h.entry(k).or_insert(1) += 1: a first occurrence already counts 2.
increment_tracked_twice(m, key) ==
    IF key \in DOMAIN m
    THEN [m EXCEPT ![key] = @ + 1]
    ELSE [k \in (DOMAIN m) \cup {key} |-> IF k = key THEN 2 ELSE m[k]]

\* h.entry(k).and_modify(|c| *c += 1).or_insert(0): a first occurrence counts 0.
increment_tracked_from_zero(m, key) ==
    IF key \in DOMAIN m
    THEN [m EXCEPT ![key] = @ + 1]
    ELSE [k \in (DOMAIN m) \cup {key} |-> IF k = key THEN 0 ELSE m[k]]

\* A new key starts a fresh map instead of being added to the old one.
increment_tracked_fresh(m, key) ==
    IF key \in DOMAIN m
    THEN [m EXCEPT ![key] = @ + 1]
    ELSE [k \in {key} |-> 1]

\* h.entry(k).and_modify(|c| *c += 1).or_insert(1)
increment_tracked(m, key) ==
    IF key \in DOMAIN m
    THEN [m EXCEPT ![key] = @ + 1]
    ELSE [k \in (DOMAIN m) \cup {key} |-> IF k = key THEN 1 ELSE m[k]]

\* format!("{}", dir_name): the directory key loses its trailing "/".
tracked_key_without_slash(file_name) ==
    LET split_by_dir == split(file_name, "/")
    IN  CASE Len(split_by_dir) >= 1 ->
                [unreachable |-> FALSE, key |-> split_by_dir[1]]
          [] OTHER ->
                [unreachable |-> TRUE, key |-> <<>>]

\* The match on (split_by_dir.next(), split_by_dir.next()): the key to
\* increment, or "unreachable" when the split yields no item.
tracked_key(file_name) ==
    LET split_by_dir == split(file_name, "/")
    IN  CASE Len(split_by_dir) >= 2 ->
                [unreachable |-> FALSE, key |-> split_by_dir[1] \o << "/" >>]
          [] Len(split_by_dir) = 1 ->
                [unreachable |-> FALSE, key |-> split_by_dir[1]]
          [] OTHER ->
                [unreachable |-> TRUE, key |-> <<>>]

\* The whole function on a sequence that never hits the unreachable arm.
RECURSIVE count_tracked_files(_)
count_tracked_files(paths) ==
    IF paths = <<>> THEN EmptyMap
    ELSE increment_tracked(
             count_tracked_files(SubSeq(paths, 1, Len(paths) - 1)),
             tracked_key(paths[Len(paths)]).key)

----------------------------------------------------------------------------
(* report_tracking_status                                                  *)

Dash == << " ", "-", " " >>

report_dir_with_tracked_files(dir_name, count) == dir_name \o Dash \o Decimal(count)

report_dir_without_tracked_files(dir_name) == dir_name \o Dash \o << "N", "o", "n", "e" >>

report_tracked_file(file_name) ==
    file_name \o Dash \o << "C", "H", "E", "C", "K", "E", "D" >>

report_untracked_file(file_name) == file_name \o Dash \o << "L", "E", "F", "T" >>

\* The guard `if count == 1` dropped: any count of a plain file is CHECKED.
report_entry_any_count(file_name, m) ==
    IF ends_with_slash(file_name)
    THEN IF file_name \in DOMAIN m
         THEN [unreachable |-> FALSE,
               line |-> report_dir_with_tracked_files(file_name, m[file_name])]
         ELSE [unreachable |-> FALSE,
               line |-> report_dir_without_tracked_files(file_name)]
    ELSE IF file_name \in DOMAIN m
         THEN [unreachable |-> FALSE, line |-> report_tracked_file(file_name)]
         ELSE [unreachable |-> FALSE, line |-> report_untracked_file(file_name)]

\* The two None arms swapped: an absent directory is LEFT, an absent file None.
report_entry_swapped_none(file_name, m) ==
    IF ends_with_slash(file_name)
    THEN IF file_name \in DOMAIN m
         THEN [unreachable |-> FALSE,
               line |-> report_dir_with_tracked_files(file_name, m[file_name])]
         ELSE [unreachable |-> FALSE,
               line |-> report_untracked_file(file_name)]
    ELSE IF file_name \in DOMAIN m
         THEN IF m[file_name] = 1
              THEN [unreachable |-> FALSE, line |-> report_tracked_file(file_name)]
              ELSE [unreachable |-> TRUE, line |-> <<>>]
         ELSE [unreachable |-> FALSE,
               line |-> report_dir_without_tracked_files(file_name)]

\* The body of the for loop: the line printed for one entry, or the
\* unreachable!() panic.
report_entry(file_name, m) ==
    IF ends_with_slash(file_name)
    THEN IF file_name \in DOMAIN m
         THEN [unreachable |-> FALSE,
               line |-> report_dir_with_tracked_files(file_name, m[file_name])]
         ELSE [unreachable |-> FALSE,
               line |-> report_dir_without_tracked_files(file_name)]
    ELSE IF file_name \in DOMAIN m
         THEN IF m[file_name] = 1
              THEN [unreachable |-> FALSE, line |-> report_tracked_file(file_name)]
              ELSE [unreachable |-> TRUE, line |-> <<>>]
         ELSE [unreachable |-> FALSE, line |-> report_untracked_file(file_name)]

----------------------------------------------------------------------------
(* main                                                                    *)

Init ==
    /\ pc = "current_dir"
    /\ result = "running"
    /\ ls_status = "not_invoked"
    /\ git_status = "not_invoked"
    /\ file_names = <<>>
    /\ tracked = <<>>
    /\ h = EmptyMap
    /\ i = 0
    /\ j = 0
    /\ out = <<>>

\* env::current_dir()?
CurrentDir ==
    /\ pc = "current_dir"
    /\ \E ok \in BOOLEAN :
          IF ok THEN pc' = "home_dir" /\ result' = result
          ELSE pc' = "failed" /\ result' = "current_dir"
    /\ UNCHANGED <<ls_status, git_status, file_names, tracked, h, i, j, out>>

\* dirs::home_dir().ok_or(anyhow!("Failed to get home dir"))?
HomeDir ==
    /\ pc = "home_dir"
    /\ \E found \in BOOLEAN :
          IF found THEN pc' = "ls" /\ result' = result
          ELSE pc' = "failed" /\ result' = "Failed to get home dir"
    /\ UNCHANGED <<ls_status, git_status, file_names, tracked, h, i, j, out>>

ExitStatuses == { "exit_0", "exit_nonzero" }

\* get_file_names(&current_dir).context("Failed to get file names in current dir")?
GetFileNames ==
    /\ pc = "ls"
    /\ \/ /\ ls_status' = "not_spawned"
          /\ pc' = "failed"
          /\ result' = "Failed to get file names in current dir"
          /\ UNCHANGED file_names
       \/ /\ \E st \in ExitStatuses : ls_status' = st
          /\ pc' = "failed"
          /\ result' = "Failed to get file names in current dir"
          /\ UNCHANGED file_names
       \/ /\ \E st \in ExitStatuses : ls_status' = st
          /\ \E lines \in SeqsUpTo(EntryPool \cup {<<>>}, MaxEntries) :
                file_names' = NonEmptyLines(Unlines(lines))
          /\ pc' = "git"
          /\ UNCHANGED result
    /\ UNCHANGED <<git_status, tracked, h, i, j, out>>

\* get_tracked_file_names(..).context("Failed to get tracked file names")?
GetTrackedFileNames ==
    /\ pc = "git"
    /\ \/ /\ git_status' = "not_spawned"
          /\ pc' = "failed"
          /\ result' = "Failed to get tracked file names"
          /\ UNCHANGED tracked
       \/ /\ \E st \in ExitStatuses : git_status' = st
          /\ pc' = "failed"
          /\ result' = "Failed to get tracked file names"
          /\ UNCHANGED tracked
       \/ /\ \E st \in ExitStatuses : git_status' = st
          /\ \E lines \in SeqsUpTo(TrackedPool \cup {<<>>}, MaxTracked) :
                tracked' = NonEmptyLines(Unlines(lines))
          /\ pc' = "count"
          /\ UNCHANGED result
    /\ UNCHANGED <<ls_status, file_names, h, i, j, out>>

\* One iteration of the for loop of count_tracked_files.
CountStep ==
    /\ pc = "count"
    /\ i < Len(tracked)
    /\ LET r == tracked_key(tracked[i + 1])
       IN  IF r.unreachable
           THEN pc' = "panicked" /\ UNCHANGED <<h, i>>
           ELSE pc' = pc /\ h' = increment_tracked(h, r.key) /\ i' = i + 1
    /\ UNCHANGED <<result, ls_status, git_status, file_names, tracked, j, out>>

\* The loop is over: h is returned and bound to current_dir_tracked.
CountReturn ==
    /\ pc = "count"
    /\ i = Len(tracked)
    /\ pc' = "report"
    /\ UNCHANGED <<result, ls_status, git_status, file_names, tracked, h, i, j, out>>

\* One iteration of the for loop of report_tracking_status.
ReportStep ==
    /\ pc = "report"
    /\ j < Len(file_names)
    /\ LET r == report_entry(file_names[j + 1], h)
       IN  IF r.unreachable
           THEN pc' = "panicked" /\ UNCHANGED <<j, out>>
           ELSE pc' = pc /\ out' = Append(out, r.line) /\ j' = j + 1
    /\ UNCHANGED <<result, ls_status, git_status, file_names, tracked, h, i>>

\* The loop is over: report_tracking_status returns and main returns Ok(()).
ReportReturn ==
    /\ pc = "report"
    /\ j = Len(file_names)
    /\ pc' = "done"
    /\ result' = "ok"
    /\ UNCHANGED <<ls_status, git_status, file_names, tracked, h, i, j, out>>

Next ==
    \/ CurrentDir
    \/ HomeDir
    \/ GetFileNames
    \/ GetTrackedFileNames
    \/ CountStep
    \/ CountReturn
    \/ ReportStep
    \/ ReportReturn

Spec == Init /\ [][Next]_vars

----------------------------------------------------------------------------
(* count_tracked_files on its own, applied to any sequence of paths        *)

AggInit ==
    /\ pc = "count"
    /\ result = "running"
    /\ ls_status = "not_invoked"
    /\ git_status = "not_invoked"
    /\ file_names = <<>>
    /\ tracked \in SeqsUpTo(AggPool, MaxTracked)
    /\ h = EmptyMap
    /\ i = 0
    /\ j = 0
    /\ out = <<>>

AggNext == CountStep \/ CountReturn

AggSpec == AggInit /\ [][AggNext]_vars

----------------------------------------------------------------------------
(* report_tracking_status on its own, applied to any entries and any map   *)

CountMaps == UNION { [D -> 0..MaxCount] : D \in SUBSET KeyPool }

RepInit ==
    /\ pc = "report"
    /\ result = "running"
    /\ ls_status = "not_invoked"
    /\ git_status = "not_invoked"
    /\ file_names \in SeqsUpTo(EntryPool, MaxEntries)
    /\ tracked = <<>>
    /\ h \in CountMaps
    /\ i = 0
    /\ j = 0
    /\ out = <<>>

RepNext == ReportStep \/ ReportReturn

RepSpec == RepInit /\ [][RepNext]_vars

----------------------------------------------------------------------------
(* Vocabulary of the properties                                            *)

HasSlash(p) == \E k \in 1..Len(p) : p[k] = "/"

\* d is the text of p before its first "/".
IsTopDirOf(d, p) ==
    /\ Len(p) > Len(d)
    /\ SubSeq(p, 1, Len(d)) = d
    /\ p[Len(d) + 1] = "/"
    /\ ~HasSlash(d)

Prefixes(p) == { SubSeq(p, 1, k) : k \in 0..Len(p) }

\* Non-empty and without a leading "/".
ValidPath(p) == Len(p) > 0 /\ p[1] # "/"

Occurrences(seq, x) == Cardinality({ n \in 1..Len(seq) : seq[n] = x })

\* No bare file name occurs more than once in the sequence.
NoDuplicateBareName(seq) ==
    \A n \in 1..Len(seq) : ~HasSlash(seq[n]) => Occurrences(seq, seq[n]) = 1

\* Every plain-file key of the map maps to 1.
PlainKeysAreOne(m) == \A k \in DOMAIN m : ~ends_with_slash(k) => m[k] = 1

RECURSIVE SumOver(_, _)
SumOver(m, D) ==
    IF D = {} THEN 0
    ELSE LET k == CHOOSE x \in D : TRUE IN m[k] + SumOver(m, D \ {k})

PermutationsOf(seq) ==
    { [n \in 1..Len(seq) |-> seq[f[n]]] : f \in Permutations(1..Len(seq)) }

Returned == pc = "report"

----------------------------------------------------------------------------
(* C1: for every sequence of valid tracked paths, the returned map holds   *)
(* key d/ exactly for the top-level directories d of paths with a "/",    *)
(* with the number of such paths, key f exactly for the bare paths f,     *)
(* with the number of such paths, and no other key.                        *)
C1_TopLevelCounts ==
    (Returned /\ \A n \in 1..Len(tracked) : ValidPath(tracked[n])) =>
        LET dirs  == { d \in UNION { Prefixes(tracked[n]) : n \in 1..Len(tracked) } :
                          \E n \in 1..Len(tracked) : IsTopDirOf(d, tracked[n]) }
            files == { tracked[n] : n \in { m \in 1..Len(tracked) : ~HasSlash(tracked[m]) } }
        IN  /\ DOMAIN h = { d \o << "/" >> : d \in dirs } \cup files
            /\ \A d \in dirs :
                  h[d \o << "/" >>] =
                      Cardinality({ n \in 1..Len(tracked) : IsTopDirOf(d, tracked[n]) })
            /\ \A f \in files : h[f] = Occurrences(tracked, f)

C1_Witness ==
    /\ Returned
    /\ tracked = << <<"a", "/", "a">>, <<"b", "/", "a", "/", "b">>, <<"a", "/", "b">> >>
    /\ h[<<"a", "/">>] = 2
    /\ h[<<"b", "/">>] = 1

C4_OrderIndependent ==
    Returned => \A p \in PermutationsOf(tracked) : count_tracked_files(p) = h

C4_Witness ==
    /\ Returned
    /\ Len(tracked) = 3
    /\ tracked[1] # tracked[2]
    /\ tracked[2] # tracked[3]
    /\ Cardinality(DOMAIN h) = 2
    /\ \E k \in DOMAIN h : h[k] = 2

(* C8 as stated: when an empty path is in the sequence, the Aggregator     *)
(* aborts: it never returns, and no map holds the empty-string key.        *)
C8_Original ==
    (\E n \in 1..Len(tracked) : tracked[n] = <<>>) =>
        (~Returned /\ <<>> \notin DOMAIN h)

(* C8 amended: the Aggregator never aborts; an empty path is counted as a  *)
(* bare file name under the empty-string key, so the returned map holds    *)
(* that key exactly when the sequence holds an empty path, with the number *)
(* of empty paths as its count.                                            *)
C8_EmptyPathCounted ==
    /\ pc # "panicked"
    /\ Returned =>
          IF Occurrences(tracked, <<>>) > 0
          THEN <<>> \in DOMAIN h /\ h[<<>>] = Occurrences(tracked, <<>>)
          ELSE <<>> \notin DOMAIN h

C8_Witness ==
    /\ Returned
    /\ Occurrences(tracked, <<>>) = 2
    /\ h[<<>>] = 2
    /\ Cardinality(DOMAIN h) = 2

----------------------------------------------------------------------------
\* The line the Reporter is to print for entry e from map m.
ExpectedLine(e, m) ==
    CASE ends_with_slash(e) /\ e \in DOMAIN m ->
            e \o << " ", "-", " " >> \o Decimal(m[e])
      [] ends_with_slash(e) /\ e \notin DOMAIN m ->
            e \o << " ", "-", " ", "N", "o", "n", "e" >>
      [] ~ends_with_slash(e) /\ e \in DOMAIN m ->
            e \o << " ", "-", " ", "C", "H", "E", "C", "K", "E", "D" >>
      [] ~ends_with_slash(e) /\ e \notin DOMAIN m ->
            e \o << " ", "-", " ", "L", "E", "F", "T" >>

(* C3: for any entries and any map whose plain-file keys map to 1, the     *)
(* Reporter prints one line per entry, in listing order, each the line of  *)
(* the entry's exact name: count, None, CHECKED or LEFT; it never faults.  *)
C3_OneLinePerEntry ==
    PlainKeysAreOne(h) =>
        /\ pc \in { "report", "done" }
        /\ Len(out) = j
        /\ pc = "done" => Len(out) = Len(file_names)
        /\ \A n \in 1..Len(out) : out[n] = ExpectedLine(file_names[n], h)

C3_Witness ==
    /\ pc = "done"
    /\ PlainKeysAreOne(h)
    /\ file_names = << <<"b">>, <<"a", "/">> >>
    /\ DOMAIN h = { <<"b", "/">>, <<"a">> }
    /\ out = << <<"b", " ", "-", " ", "L", "E", "F", "T">>,
                <<"a", "/", " ", "-", " ", "N", "o", "n", "e">> >>

----------------------------------------------------------------------------
\* A plain-file entry whose name is a bare tracked path at least twice.
DuplicatedBareEntry(n) ==
    /\ ~ends_with_slash(file_names[n])
    /\ Occurrences(tracked, file_names[n]) >= 2

(* C7: when a bare file name is tracked twice and is listed as a plain     *)
(* file, the Reporter faults on reaching that entry and never prints a     *)
(* line for it.                                                            *)
C7_DuplicateFaults ==
    /\ [](\A n \in 1..Len(file_names) :
            (DuplicatedBareEntry(n) /\ pc \in { "report", "done", "panicked" }) =>
                (j < n /\ Len(out) < n /\ pc # "done"))
    /\ [][(pc = "report" /\ j < Len(file_names) /\ DuplicatedBareEntry(j + 1)) =>
            (pc' = "panicked" /\ out' = out)]_vars

C7_Witness ==
    /\ pc = "panicked"
    /\ Len(file_names) = 2
    /\ DuplicatedBareEntry(2)
    /\ j = 1
    /\ Len(out) = 1

(* C10: after any prefix of the tracked paths every count is >= 1, the     *)
(* counts sum to the number of paths processed, the keys are no more than  *)
(* the paths, each path increments exactly one key by exactly 1, and every *)
(* directory line printed from the map carries a count >= 1.               *)
C10_Conservation ==
    /\ [](/\ \A k \in DOMAIN h : h[k] >= 1
          /\ SumOver(h, DOMAIN h) = i
          /\ Cardinality(DOMAIN h) <= i
          /\ \A n \in 1..Len(out) :
                (ends_with_slash(file_names[n]) /\ file_names[n] \in DOMAIN h) =>
                    /\ h[file_names[n]] >= 1
                    /\ out[n] = file_names[n] \o << " ", "-", " " >>
                                    \o Decimal(h[file_names[n]])
                    /\ out[n] # file_names[n] \o << " ", "-", " ", "0" >>)
    /\ [][i' = i + 1 =>
            \E key \in DOMAIN h' :
                /\ h'[key] = (IF key \in DOMAIN h THEN h[key] ELSE 0) + 1
                /\ DOMAIN h' = DOMAIN h \cup {key}
                /\ \A k \in DOMAIN h : k # key => h'[k] = h[k]]_vars

C10_Witness ==
    /\ pc = "done"
    /\ i = 3
    /\ Cardinality(DOMAIN h) = 2
    /\ \E n \in 1..Len(out) :
          out[n] = << "a", "/", " ", "-", " ", "2" >>

----------------------------------------------------------------------------
\* A listing tool that ran and did not exit with status 0.
ExitedAbnormally(status) == status = "exit_nonzero"

(* C5: in every run in which a fatal step occurred (home directory         *)
(* unknown, a listing failure, undecodable listing output, the Reporter's  *)
(* fault), no output line has been printed.                                *)
C5_AllOrNothing ==
    ( \/ pc \in { "failed", "panicked" }
      \/ ExitedAbnormally(ls_status)
      \/ ExitedAbnormally(git_status) ) => out = <<>>

(* C6: a listing tool that exits abnormally makes the run fatal: the run   *)
(* ends with the failure naming that listing, prints nothing, and never    *)
(* goes on to aggregation and reporting.                                   *)
C6_AbnormalExitIsFatal ==
    /\ ExitedAbnormally(ls_status) =>
          /\ pc = "failed"
          /\ result = "Failed to get file names in current dir"
          /\ out = <<>>
    /\ ExitedAbnormally(git_status) =>
          /\ pc = "failed"
          /\ result = "Failed to get tracked file names"
          /\ out = <<>>

(* C9: each step starts only after the previous one completed              *)
(* successfully: no listing after a home-directory failure, no tracked     *)
(* listing unless the directory listing succeeded, no aggregation unless   *)
(* the tracked listing succeeded, no report before the aggregation is      *)
(* over, and the map is not modified once reporting has begun.             *)
C9_StrictlySequential ==
    /\ [](/\ result = "Failed to get home dir" =>
                (ls_status = "not_invoked" /\ git_status = "not_invoked")
          /\ ls_status # "not_invoked" => pc \notin { "current_dir", "home_dir" }
          /\ git_status # "not_invoked" => ls_status = "exit_0"
          /\ (pc = "count" \/ i > 0 \/ h # EmptyMap) => git_status = "exit_0"
          /\ (pc \in { "report", "done" } \/ j > 0 \/ out # <<>>) => i = Len(tracked))
    /\ [][pc = "report" => h' = h]_vars

=============================================================================
